---- MODULE Spec2Model ----
(***************************************************************************)
(* Model of src/main.js: the ExampleTickDataProvider (getTick and          *)
(* nextInitializedTickWithinOneWord), computeQuote, which builds the       *)
(* provider from poolData.ticks and hands it to v3Swap, and fetchPoolData, *)
(* which builds poolData.ticks from concurrent per-tick RPC calls.         *)
(*                                                                         *)
(* JavaScript object keys are strings; every key of a ticks object is the  *)
(* canonical decimal form of an integer tick and every lookup goes through *)
(* the same number-to-string conversion, so keys are modelled as integers. *)
(* Field values (liquidityNet, liquidityGross) are decimal strings, as in  *)
(* the source; a missing field reads as "undefined".                       *)
(***************************************************************************)
EXTENDS Integers, Sequences, FiniteSets, TLC

VARIABLES
    pc,           \* position of main(): "fetchPoolData", "awaitTicks" (inside
                  \* fetchPoolData), "computeQuote", "v3Swap", "failed"
    tickSpacing,  \* poolData.tickSpacing
    tickCurrent,  \* slot0Data.tick / poolData.tickCurrent
    tickRange,    \* fetchPoolData's tickRange argument
    rpc,          \* per fetched tick: what the pool.ticks(tick) call did
    tickResults,  \* per fetched tick: the value its promise in tickPromises settled to
    poolTicks,    \* poolData.ticks
    this_ticks,   \* ExampleTickDataProvider.ticks
    call,         \* the last provider call made by v3Swap
    result,       \* what that call returned
    repeat,       \* the last call had the same arguments as the one before it
    error         \* the error main() caught, "none" if none

vars == <<pc, tickSpacing, tickCurrent, tickRange, rpc, tickResults, poolTicks,
          this_ticks, call, result, repeat, error>>

(***************************************************************************)
(* Bounds of the model.  MAX_TICK stands for TickMath.MAX_TICK (887272 in  *)
(* the library), scaled down so that the linear scan is short; the code    *)
(* only ever compares ticks with it.                                       *)
(***************************************************************************)
MAX_TICK == 4
MaxSpacing == 3
MaxKeys == 2
Margin == 2
MaxRange == 1

MIN_TICK == -MAX_TICK

Spacings == 1..MaxSpacing
\* Ticks a caller may pass and keys a ticks object may hold: the valid range
\* and Margin ticks beyond it on both sides.
Ticks == (MIN_TICK - Margin)..(MAX_TICK + Margin)

Abs(n) == IF n < 0 THEN -n ELSE n

(***************************************************************************)
(* Number.prototype.toString / BigNumber.toString for integers.            *)
(***************************************************************************)
Digit(d) ==
    CASE d = 0 -> "0" [] d = 1 -> "1" [] d = 2 -> "2" [] d = 3 -> "3" [] d = 4 -> "4"
      [] d = 5 -> "5" [] d = 6 -> "6" [] d = 7 -> "7" [] d = 8 -> "8" [] d = 9 -> "9"

RECURSIVE NatStr(_)
NatStr(n) == IF n < 10 THEN Digit(n) ELSE NatStr(n \div 10) \o Digit(n % 10)

toString(n) == IF n < 0 THEN "-" \o NatStr(-n) ELSE NatStr(n)

(***************************************************************************)
(* JavaScript value helpers.                                               *)
(***************************************************************************)
Undefined == "undefined"

\* this.ticks[tick]?.field
OptionalField(ticks, tick, field) ==
    IF tick \in DOMAIN ticks /\ field \in DOMAIN ticks[tick]
    THEN ticks[tick][field]
    ELSE Undefined

\* v || '0' : undefined and the empty string are falsy, '0' is a truthy string
OrZero(v) == IF v = Undefined \/ v = "" THEN "0" ELSE v

(***************************************************************************)
(* ExampleTickDataProvider                                                 *)
(***************************************************************************)
\* a copy-paste slip: liquidityGross read from the liquidityNet field
getTick_GrossFromNet(ticks, tick) ==
    [liquidityNet   |-> OrZero(OptionalField(ticks, tick, "liquidityNet")),
     liquidityGross |-> OrZero(OptionalField(ticks, tick, "liquidityNet"))]

getTick(ticks, tick) ==
    [liquidityNet   |-> OrZero(OptionalField(ticks, tick, "liquidityNet")),
     liquidityGross |-> OrZero(OptionalField(ticks, tick, "liquidityGross"))]

\* an off-by-one range check
LoopGuard_Loose(nextTick) == nextTick >= MIN_TICK - 1 /\ nextTick <= MAX_TICK + 1

\* the while condition of the scan
LoopGuard(nextTick) == nextTick >= MIN_TICK /\ nextTick <= MAX_TICK

\* this.ticks[nextTick] is truthy: every stored value is an object
Truthy(ticks, nextTick) == nextTick \in DOMAIN ticks

\* the two-element array [nextTick, initialized] a scan returns
Pair(nextTick, initialized) == [nextTick |-> nextTick, initialized |-> initialized]

\* the ternary's branches swapped
NotFound_Swapped(zeroForOne) == Pair(IF zeroForOne THEN MAX_TICK ELSE MIN_TICK, FALSE)

NotFound(zeroForOne) == Pair(IF zeroForOne THEN MIN_TICK ELSE MAX_TICK, FALSE)

RECURSIVE Scan(_, _, _, _)
Scan(ticks, nextTick, step, zeroForOne) ==
    IF LoopGuard(nextTick)
    THEN IF Truthy(ticks, nextTick)
         THEN Pair(nextTick, TRUE)
         ELSE Scan(ticks, nextTick + step, step, zeroForOne)
    ELSE NotFound(zeroForOne)

Step(zeroForOne, spacing) == IF zeroForOne THEN -spacing ELSE spacing

\* the scan started at the start tick instead of one step away
nextInitializedTick_FromStart(ticks, tick, zeroForOne, spacing) ==
    Scan(ticks, tick, Step(zeroForOne, spacing), zeroForOne)

nextInitializedTickWithinOneWord(ticks, tick, zeroForOne, spacing) ==
    Scan(ticks, tick + Step(zeroForOne, spacing), Step(zeroForOne, spacing), zeroForOne)

(***************************************************************************)
(* poolData literals, shaped like the example in main(): records with     *)
(* both fields, as decimal strings.                                        *)
(***************************************************************************)
LiteralInfo(k) ==
    [liquidityNet |-> toString(100 * k), liquidityGross |-> toString(100 * Abs(k) + 100)]

KeySets == {K \in SUBSET Ticks : Cardinality(K) <= MaxKeys}

LiteralTicks == {[k \in K |-> LiteralInfo(k)] : K \in KeySets}

NoCall == [op |-> "none"]
NoResult == [none |-> TRUE]
Empty == [k \in {} |-> NoResult]

InitLiteral ==
    /\ pc = "computeQuote"
    /\ tickSpacing \in Spacings
    /\ tickCurrent = 0
    /\ tickRange = 0
    /\ rpc = Empty
    /\ tickResults = Empty
    /\ poolTicks \in LiteralTicks
    /\ this_ticks = Empty
    /\ call = NoCall
    /\ result = NoResult
    /\ repeat = FALSE
    /\ error = "none"

(***************************************************************************)
(* computeQuote: new ExampleTickDataProvider(poolData.ticks), then v3Swap. *)
(***************************************************************************)
ComputeQuote ==
    /\ pc = "computeQuote"
    /\ this_ticks' = poolTicks
    /\ pc' = "v3Swap"
    /\ rpc' = Empty
    /\ tickResults' = Empty
    /\ UNCHANGED <<tickSpacing, tickCurrent, tickRange, poolTicks, call, result, repeat, error>>

(***************************************************************************)
(* v3Swap calls the provider with ticks of its choosing.  Neither method   *)
(* awaits, so each call runs to completion before any other code.          *)
(***************************************************************************)
\* a memoising getTick: the zero record of an absent tick is stored
GetTick_Caching ==
    /\ pc = "v3Swap"
    /\ \E tick \in Ticks :
         /\ call' = [op |-> "getTick", tick |-> tick]
         /\ result' = getTick(this_ticks, tick)
         /\ this_ticks' = IF tick \in DOMAIN this_ticks
                          THEN this_ticks
                          ELSE (tick :> getTick(this_ticks, tick)) @@ this_ticks
    /\ repeat' = (call' = call)
    /\ UNCHANGED <<pc, tickSpacing, tickCurrent, tickRange, rpc, tickResults, poolTicks, error>>

GetTick ==
    /\ pc = "v3Swap"
    /\ \E tick \in Ticks :
         /\ call' = [op |-> "getTick", tick |-> tick]
         /\ result' = getTick(this_ticks, tick)
    /\ repeat' = (call' = call)
    /\ UNCHANGED <<pc, tickSpacing, tickCurrent, tickRange, rpc, tickResults, poolTicks,
                   this_ticks, error>>

NextInitializedTick ==
    /\ pc = "v3Swap"
    /\ \E tick \in Ticks, zeroForOne \in BOOLEAN :
         /\ call' = [op |-> "next", tick |-> tick, zeroForOne |-> zeroForOne,
                     tickSpacing |-> tickSpacing]
         /\ result' = nextInitializedTickWithinOneWord(this_ticks, tick, zeroForOne, tickSpacing)
    /\ repeat' = (call' = call)
    /\ UNCHANGED <<pc, tickSpacing, tickCurrent, tickRange, rpc, tickResults, poolTicks,
                   this_ticks, error>>

Next ==
    \/ ComputeQuote
    \/ GetTick
    \/ NextInitializedTick

Spec == InitLiteral /\ [][Next]_vars

(***************************************************************************)
(* fetchPoolData                                                           *)
(***************************************************************************)
\* startTick .. endTick in steps of tickSpacing; Math.floor(a / b) is a \div b
startTick(cur, spacing, range) == (cur \div spacing) * spacing - range * spacing
endTick(cur, spacing, range) == (cur \div spacing) * spacing + range * spacing

FetchedTicks(cur, spacing, range) ==
    {t \in startTick(cur, spacing, range)..endTick(cur, spacing, range) :
        (t - startTick(cur, spacing, range)) % spacing = 0}

\* What the pool contract answers for an initialized tick.
ChainNet(t) == 100 * t
ChainGross(t) == 100 * Abs(t) + 100

Pending == [settled |-> FALSE]
Null == [isNull |-> TRUE]

InitFetch ==
    /\ pc = "fetchPoolData"
    /\ tickSpacing \in Spacings
    /\ tickCurrent \in MIN_TICK..MAX_TICK
    /\ tickRange \in 1..MaxRange
    /\ rpc = Empty
    /\ tickResults = Empty
    /\ poolTicks = Empty
    /\ this_ticks = Empty
    /\ call = NoCall
    /\ result = NoResult
    /\ repeat = FALSE
    /\ error = "none"

\* The four basic calls resolve; every pool.ticks(tick) call is issued before
\* fetchPoolData awaits.
FetchBasic ==
    /\ pc = "fetchPoolData"
    /\ pc' = "awaitTicks"
    /\ rpc' = [t \in FetchedTicks(tickCurrent, tickSpacing, tickRange) |-> "pending"]
    /\ tickResults' = [t \in FetchedTicks(tickCurrent, tickSpacing, tickRange) |-> Pending]
    /\ UNCHANGED <<tickSpacing, tickCurrent, tickRange, poolTicks, this_ticks, call, result,
                   repeat, error>>

\* One of the four basic calls rejects: fetchPoolData rethrows, main() logs;
\* poolData stays undefined and computeQuote throws on its first line, so no
\* provider is ever built.
FetchBasicFail ==
    /\ pc = "fetchPoolData"
    /\ pc' = "failed"
    /\ error' = "RpcError"
    /\ UNCHANGED <<tickSpacing, tickCurrent, tickRange, rpc, tickResults, poolTicks, this_ticks,
                   call, result, repeat>>

\* pool.ticks(tick) resolves and the .then callback maps the answer.  The pool
\* initializes no tick outside [MIN_TICK, MAX_TICK].
TickFulfilled(t) ==
    /\ pc = "awaitTicks"
    /\ rpc[t] = "pending"
    /\ \E initialized \in BOOLEAN :
         /\ initialized => (MIN_TICK <= t /\ t <= MAX_TICK)
         /\ LET tickData == [liquidityGross |-> IF initialized THEN ChainGross(t) ELSE 0,
                             liquidityNet   |-> IF initialized THEN ChainNet(t) ELSE 0,
                             initialized    |-> initialized]
            IN  /\ rpc' = [rpc EXCEPT ![t] = IF initialized THEN "initialized"
                                                           ELSE "uninitialized"]
                /\ tickResults' = [tickResults EXCEPT ![t] =
                                     [tick         |-> t,
                                      liquidityNet |-> toString(tickData.liquidityNet),
                                      initialized  |-> tickData.initialized]]
    /\ UNCHANGED <<pc, tickSpacing, tickCurrent, tickRange, poolTicks, this_ticks, call, result,
                   repeat, error>>

\* the .catch(() => null) left out: the rejection reaches Promise.all
TickRejected_NoCatch(t) ==
    /\ pc = "awaitTicks"
    /\ rpc[t] = "pending"
    /\ rpc' = [rpc EXCEPT ![t] = "failed"]
    /\ pc' = "failed"
    /\ error' = "RpcError"
    /\ UNCHANGED <<tickSpacing, tickCurrent, tickRange, tickResults, poolTicks, this_ticks,
                   call, result, repeat>>

\* pool.ticks(tick) rejects: .catch(() => null)
TickRejected(t) ==
    /\ pc = "awaitTicks"
    /\ rpc[t] = "pending"
    /\ rpc' = [rpc EXCEPT ![t] = "failed"]
    /\ tickResults' = [tickResults EXCEPT ![t] = Null]
    /\ UNCHANGED <<pc, tickSpacing, tickCurrent, tickRange, poolTicks, this_ticks, call, result,
                   repeat, error>>

\* Promise.all(tickPromises) resolves; the loop over tickResults; return.
Collect ==
    /\ pc = "awaitTicks"
    /\ \A t \in DOMAIN tickResults : tickResults[t] # Pending
    /\ poolTicks' = [t \in {u \in DOMAIN tickResults :
                              tickResults[u] # Null /\ tickResults[u].initialized}
                       |-> [liquidityNet |-> tickResults[t].liquidityNet]]
    /\ pc' = "computeQuote"
    /\ UNCHANGED <<tickSpacing, tickCurrent, tickRange, rpc, tickResults, this_ticks, call,
                   result, repeat, error>>

NextFetch ==
    \/ FetchBasic
    \/ FetchBasicFail
    \/ \E t \in DOMAIN rpc : TickFulfilled(t)
    \/ \E t \in DOMAIN rpc : TickRejected(t)
    \/ Collect
    \/ ComputeQuote
    \/ GetTick
    \/ NextInitializedTick

SpecFetch == InitFetch /\ [][NextFetch]_vars

(***************************************************************************)
(* Properties                                                              *)
(***************************************************************************)
WithinTickRange(t) == MIN_TICK <= t /\ t <= MAX_TICK

IsNext == pc = "v3Swap" /\ call.op = "next"
IsGetTick == pc = "v3Swap" /\ call.op = "getTick"

Keys == DOMAIN this_ticks
KeysAbove(t) == {k \in Keys : k > t}
KeysBelow(t) == {k \in Keys : k < t}
Least(S) == CHOOSE x \in S : \A y \in S : x <= y
Greatest(S) == CHOOSE x \in S : \A y \in S : x >= y

Boundary(zeroForOne) == Pair(IF zeroForOne THEN MIN_TICK ELSE MAX_TICK, FALSE)
ZeroTickInfo == [liquidityNet |-> "0", liquidityGross |-> "0"]

\* every key is a tick of the valid range and a multiple of tickSpacing
WellFormed == \A k \in Keys : WithinTickRange(k) /\ k % tickSpacing = 0

\* t1 < t2 are initialized ticks of the valid range, multiples of the spacing,
\* with no initialized tick strictly between them
Adjacent(t1, t2) ==
    /\ t1 \in Keys /\ t2 \in Keys /\ t1 < t2
    /\ WithinTickRange(t1) /\ WithinTickRange(t2)
    /\ t1 % tickSpacing = 0 /\ t2 % tickSpacing = 0
    /\ \A k \in Keys : ~(t1 < k /\ k < t2)

\* C1: for a start tick within [MIN_TICK, MAX_TICK], aligned to tickSpacing or
\* not, the increasing query returns (smallest key above the start, true)
\* when there is a key above, and the decreasing query returns (largest key
\* below the start, true) when there is a key below.  Stated here for the
\* snapshots whose keys are all valid ticks and multiples of tickSpacing.
C1_NearestKeyAnyStart ==
    (IsNext /\ WellFormed /\ WithinTickRange(call.tick)) =>
        /\ (~call.zeroForOne /\ KeysAbove(call.tick) # {})
              => result = Pair(Least(KeysAbove(call.tick)), TRUE)
        /\ (call.zeroForOne /\ KeysBelow(call.tick) # {})
              => result = Pair(Greatest(KeysBelow(call.tick)), TRUE)

\* C2: for initialized ticks t1 < t2, both multiples of tickSpacing, with no
\* initialized tick strictly between them, the increasing query from t1
\* returns (t2, true) and the decreasing query from t2 returns (t1, true);
\* the start tick is never returned as the initialized tick.
C2_AdjacentInitialized ==
    IsNext =>
        /\ \A t1 \in Keys, t2 \in Keys :
              Adjacent(t1, t2) =>
                 /\ (call.tick = t1 /\ ~call.zeroForOne) => result = Pair(t2, TRUE)
                 /\ (call.tick = t2 /\ call.zeroForOne) => result = Pair(t1, TRUE)
        /\ result # Pair(call.tick, TRUE)

\* C2 witness: a query from an initialized tick that returned the adjacent
\* initialized tick, more than one step away.
C2_Witness ==
    /\ IsNext
    /\ \E t1 \in Keys, t2 \in Keys :
          /\ Adjacent(t1, t2)
          /\ t2 - t1 > tickSpacing
          /\ \/ call.tick = t1 /\ ~call.zeroForOne /\ result = Pair(t2, TRUE)
             \/ call.tick = t2 /\ call.zeroForOne /\ result = Pair(t1, TRUE)

\* C3: getTick returns exactly the stored TickInfo for a key of the snapshot
\* and the zero TickInfo for every other tick.
C3_GetTickStoredOrZero ==
    IsGetTick =>
        result = IF call.tick \in Keys THEN this_ticks[call.tick] ELSE ZeroTickInfo

\* C3 witness: getTick on a stored tick whose two fields differ and are not zero.
C3_Witness ==
    /\ IsGetTick
    /\ call.tick \in Keys
    /\ result.liquidityNet # "0"
    /\ result.liquidityGross # result.liquidityNet

\* C4: with no key strictly above the start the increasing query returns
\* (MAX_TICK, false); with no key strictly below it the decreasing query
\* returns (MIN_TICK, false).
C4_BeyondOutermost ==
    IsNext =>
        /\ (~call.zeroForOne /\ KeysAbove(call.tick) = {}) => result = Pair(MAX_TICK, FALSE)
        /\ (call.zeroForOne /\ KeysBelow(call.tick) = {}) => result = Pair(MIN_TICK, FALSE)

\* C4 witness: a query from inside the range, past the outermost key of a
\* snapshot that has keys.
C4_Witness ==
    /\ IsNext
    /\ Keys # {}
    /\ WithinTickRange(call.tick)
    /\ \/ ~call.zeroForOne /\ KeysAbove(call.tick) = {} /\ result = Pair(MAX_TICK, FALSE)
       \/ call.zeroForOne /\ KeysBelow(call.tick) = {} /\ result = Pair(MIN_TICK, FALSE)

\* C5: a snapshot holding a key that is not a multiple of tickSpacing is
\* rejected with a ValidationError when the provider is constructed, so no
\* provider ever holds such a key.
C5_MisalignedRejected ==
    /\ (pc = "v3Swap") => \A k \in Keys : k % tickSpacing = 0
    /\ (pc # "computeQuote" /\ \E k \in DOMAIN poolTicks : k % tickSpacing # 0)
          => error = "ValidationError"

\* C6 as claimed: every query from a start tick outside [MIN_TICK, MAX_TICK]
\* returns the boundary-not-found pair of its direction.
C6_OutOfRangeStartIsBoundary ==
    (IsNext /\ ~WithinTickRange(call.tick)) => result = Boundary(call.zeroForOne)

\* C6 amended: a query from a start tick outside [MIN_TICK, MAX_TICK] returns
\* the boundary-not-found pair of its direction whenever the first tick it
\* probes, one tickSpacing from the start, is outside the range too; this
\* covers every query that points away from the range.
C6_OutOfRangeFirstProbeOutside ==
    (IsNext /\ ~WithinTickRange(call.tick)) =>
        /\ ~WithinTickRange(call.tick + Step(call.zeroForOne, call.tickSpacing))
              => result = Boundary(call.zeroForOne)
        /\ (call.tick > MAX_TICK /\ ~call.zeroForOne) => result = Pair(MAX_TICK, FALSE)
        /\ (call.tick < MIN_TICK /\ call.zeroForOne) => result = Pair(MIN_TICK, FALSE)

\* C6 witness: a query from outside the range whose first probe is outside
\* too, although the snapshot holds a valid key further along its direction.
C6_Witness ==
    /\ IsNext
    /\ ~WithinTickRange(call.tick)
    /\ ~WithinTickRange(call.tick + Step(call.zeroForOne, call.tickSpacing))
    /\ \E k \in Keys :
          /\ WithinTickRange(k)
          /\ IF call.zeroForOne THEN k < call.tick ELSE k > call.tick
    /\ result = Boundary(call.zeroForOne)

\* C7: the tick returned by nextInitializedTickWithinOneWord lies within
\* [MIN_TICK, MAX_TICK], also when the snapshot holds keys outside the range.
C7_ResultWithinRange ==
    IsNext => WithinTickRange(result.nextTick)

\* C7 witness: the scan walked towards a key outside the range, on its own
\* grid, and returned the boundary instead.
C7_Witness ==
    /\ IsNext
    /\ WithinTickRange(call.tick)
    /\ \E k \in Keys :
          /\ ~WithinTickRange(k)
          /\ (k - call.tick) % call.tickSpacing = 0
          /\ IF call.zeroForOne THEN k < call.tick ELSE k > call.tick
    /\ result = Boundary(call.zeroForOne)

\* C8: no provider call changes the provider's tick mapping (nor the
\* poolData.ticks object it aliases), and a call repeated with the same
\* arguments returns the same result.
C8_QueriesReadOnly ==
    [][pc = "v3Swap" =>
          /\ this_ticks' = this_ticks
          /\ poolTicks' = poolTicks
          /\ (call' = call => result' = result)]_vars

\* C8 witness: a call was repeated on a provider that holds keys.
C8_Witness ==
    /\ pc = "v3Swap"
    /\ repeat
    /\ Keys # {}
    /\ this_ticks = poolTicks

\* C9: once the per-tick fetches are issued fetchPoolData does not fail,
\* whichever of them fail and in whatever order they settle, and the ticks
\* mapping it returns holds exactly the ticks whose fetch succeeded with
\* initialized = true, each with the fetched liquidityNet.
C9_TickFailuresTolerated ==
    /\ (pc = "failed") => rpc = Empty
    /\ (pc = "computeQuote" /\ rpc # Empty) =>
          /\ DOMAIN poolTicks = {t \in DOMAIN rpc : rpc[t] = "initialized"}
          /\ \A t \in DOMAIN poolTicks :
                poolTicks[t] = [liquidityNet |-> toString(ChainNet(t))]

\* C9 witness: fetchPoolData returned after one fetch failed, one found its
\* tick uninitialized and one found it initialized.
C9_Witness ==
    /\ pc = "computeQuote"
    /\ \E t \in DOMAIN rpc : rpc[t] = "failed"
    /\ \E t \in DOMAIN rpc : rpc[t] = "uninitialized"
    /\ \E t \in DOMAIN rpc : rpc[t] = "initialized"
    /\ error = "none"

\* C10: every tick of a snapshot produced by fetchPoolData carries a non-zero
\* liquidityGross, so getTick reports liquidityGross # 0 for each of them.
C10_IncludedGrossNonZero ==
    /\ (pc = "computeQuote" /\ rpc # Empty) =>
          \A t \in DOMAIN poolTicks :
             OptionalField(poolTicks, t, "liquidityGross") \notin {Undefined, "0"}
    /\ (IsGetTick /\ tickRange > 0 /\ call.tick \in Keys) => result.liquidityGross # "0"

====
